---- MODULE Spec2Model ----
(***************************************************************************)
(* A model of bidict's BidictBase (src/bidict/_base.py): the two backing   *)
(* dicts of a bidirectional mapping, the dedup / write / undo protocol of  *)
(* put and update, copy, and the strong / weak pairing of an instance with *)
(* its inverse.                                                            *)
(*                                                                         *)
(* Python dicts are functions with a finite domain.  Instances and dicts   *)
(* live in a heap (objs, stores) and are named by ids, so that two         *)
(* instances sharing one dict is different from two instances holding      *)
(* equal dicts.                                                            *)
(*                                                                         *)
(* _dedup_item tests `isinstance(oldval, _Marker)`; _Marker is the class   *)
(* of the _MISS sentinel, so the test is modelled as "is the _MISS         *)
(* sentinel" (IsMarker).                                                   *)
(***************************************************************************)
EXTENDS Integers, Sequences, FiniteSets, TLC

\* ---------------------------------------------------------------- bounds
NumAtoms == 3     \* one instance on its own: keys and values are drawn from 1..NumAtoms
MaxBatch == 2     \* longest batch of pairs handed to update / putall
HeapAtoms == 2    \* several instances: keys and values are drawn from 1..HeapAtoms
MaxObjs == 4      \* instances alive at once, and backing dicts alive at once
MaxBuild == 3     \* longest sequence of pairs a map is constructed from, one map at a time

Atoms == 1..NumAtoms
ObjIds == 1..MaxObjs
StoreIds == 1..MaxObjs

\* ------------------------------------------------------------- sentinels
MISS == 0         \* _MISS: dict.get's default, never a key or a value
None == 0         \* Python's None in _inv / _invweak
Dead == -1        \* a weakref whose referent has been reclaimed: calling it gives None
Temp == -2        \* an instance rebuilt from a payload that only the payload refers to

RAISE == "RAISE"
DROP_OLD == "DROP_OLD"
DROP_NEW == "DROP_NEW"
OnDupAction == {RAISE, DROP_OLD, DROP_NEW}

OnDup(k, v, kv) == [key |-> k, val |-> v, kv |-> kv]
ON_DUP_DEFAULT == OnDup(DROP_OLD, RAISE, RAISE)
ON_DUP_RAISE == OnDup(RAISE, RAISE, RAISE)
ON_DUP_DROP_OLD == OnDup(DROP_OLD, DROP_OLD, DROP_OLD)
OnDups == [key : OnDupAction, val : OnDupAction, kv : OnDupAction]
HasRaise(on_dup) == RAISE \in {on_dup.key, on_dup.val, on_dup.kv}

NoErr == "none"
DuplicationErrors ==
    {"KeyDuplicationError", "ValueDuplicationError", "KeyAndValueDuplicationError"}

\* ------------------------------------------------------------ dict helpers
EmptyDict == [x \in {} |-> 0]
Has(d, k) == k \in DOMAIN d
Get(d, k) == IF k \in DOMAIN d THEN d[k] ELSE MISS
SetItem(d, k, v) == [x \in DOMAIN d \cup {k} |-> IF x = k THEN v ELSE d[x]]
DelItem(d, k) == [x \in DOMAIN d \ {k} |-> d[x]]
Items(d) == {<<k, d[k]>> : k \in DOMAIN d}
DictLen(d) == Cardinality(DOMAIN d)

\* two dicts that are each other's inverse
MutuallyInverse(f, i) ==
    /\ DictLen(f) = DictLen(i)
    /\ \A k \in DOMAIN f : Get(i, f[k]) = k
    /\ \A v \in DOMAIN i : Get(f, i[v]) = v

\* ------------------------------------------------- _dedup_item and friends
IsMarker(x) == x = MISS

DedupResult(isdupkey, isdupval, oldkey, oldval) ==
    [tag |-> "DedupResult", err |-> NoErr, isdupkey |-> isdupkey,
     isdupval |-> isdupval, oldkey |-> oldkey, oldval |-> oldval]
NOOP == [tag |-> "NOOP", err |-> NoErr, isdupkey |-> FALSE,
         isdupval |-> FALSE, oldkey |-> MISS, oldval |-> MISS]
Raised(e) == [tag |-> "raise", err |-> e, isdupkey |-> FALSE,
              isdupval |-> FALSE, oldkey |-> MISS, oldval |-> MISS]
NODUP == DedupResult(FALSE, FALSE, MISS, MISS)

\* mutant: _already_have always answers False
AlreadyHaveFalse(key, val, oldkey, oldval) == [isdup |-> FALSE, asserted |-> TRUE]

\* _already_have: isdup, and whether its assertion held
AlreadyHave(key, val, oldkey, oldval) ==
    LET isdup == oldkey = key
    IN  [isdup |-> isdup, asserted |-> (isdup = (oldval = val))]

\* mutant: DROP_NEW goes on to the write, like DROP_OLD
OnDupDecisionKeepWrites(action, error, dedup_result) ==
    IF action = RAISE THEN Raised(error) ELSE dedup_result

OnDupDecision(action, error, dedup_result) ==
    IF action = RAISE THEN Raised(error)
    ELSE IF action = DROP_NEW THEN NOOP
    ELSE IF action # DROP_OLD THEN Raised("ValueError")
    ELSE dedup_result

\* mutant: a duplicate value is decided by the key slot of the policy
DedupItemValUsesKeySlot(fwdm, invm, key, val, on_dup) ==
    LET oldval == Get(fwdm, key)
        oldkey == Get(invm, val)
        isdupkey == oldval # MISS
        isdupval == oldkey # MISS
        dedup_result == DedupResult(isdupkey, isdupval, oldkey, oldval)
    IN  IF ~IsMarker(oldval) /\ ~IsMarker(oldkey)
        THEN LET have == AlreadyHave(key, val, oldkey, oldval)
             IN  IF ~have.asserted THEN Raised("AssertionError")
                 ELSE IF have.isdup THEN NOOP
                 ELSE OnDupDecision(on_dup.kv, "KeyAndValueDuplicationError", dedup_result)
        ELSE IF isdupkey
        THEN OnDupDecision(on_dup.key, "KeyDuplicationError", dedup_result)
        ELSE IF isdupval
        THEN OnDupDecision(on_dup.key, "ValueDuplicationError", dedup_result)
        ELSE dedup_result

\* mutant: every item is taken for one the map already has
DedupItemNoop(fwdm, invm, key, val, on_dup) == NOOP

\* mutant: no branch of its own for a collision on both sides; the key slot
\* decides whenever the key is a duplicate
DedupItemNoBothBranch(fwdm, invm, key, val, on_dup) ==
    LET oldval == Get(fwdm, key)
        oldkey == Get(invm, val)
        isdupkey == oldval # MISS
        isdupval == oldkey # MISS
        dedup_result == DedupResult(isdupkey, isdupval, oldkey, oldval)
    IN  IF isdupkey /\ isdupval /\ oldkey = key THEN NOOP
        ELSE IF isdupkey
        THEN OnDupDecision(on_dup.key, "KeyDuplicationError", dedup_result)
        ELSE IF isdupval
        THEN OnDupDecision(on_dup.val, "ValueDuplicationError", dedup_result)
        ELSE dedup_result

DedupItem(fwdm, invm, key, val, on_dup) ==
    LET oldval == Get(fwdm, key)
        oldkey == Get(invm, val)
        isdupkey == oldval # MISS
        isdupval == oldkey # MISS
        dedup_result == DedupResult(isdupkey, isdupval, oldkey, oldval)
    IN  IF ~IsMarker(oldval) /\ ~IsMarker(oldkey)
        THEN LET have == AlreadyHave(key, val, oldkey, oldval)
             IN  IF ~have.asserted THEN Raised("AssertionError")
                 ELSE IF have.isdup THEN NOOP
                 ELSE OnDupDecision(on_dup.kv, "KeyAndValueDuplicationError", dedup_result)
        ELSE IF isdupkey
        THEN OnDupDecision(on_dup.key, "KeyDuplicationError", dedup_result)
        ELSE IF isdupval
        THEN OnDupDecision(on_dup.val, "ValueDuplicationError", dedup_result)
        ELSE dedup_result

\* ------------------------------------------------------------ _write_item
\* The result of a step on the two dicts: the dicts, the error raised (if
\* any, with the dicts as they were when it was raised) and the write record.
Outcome(fwdm, invm, err) == [fwdm |-> fwdm, invm |-> invm, err |-> err]
WriteResult(key, val, oldkey, oldval) ==
    [key |-> key, val |-> val, oldkey |-> oldkey, oldval |-> oldval]

\* mutant: the stale inverse entry of an overwritten key is not deleted
WriteItemKeepsOldVal(fwdm, invm, key, val, dedup_result) ==
    LET f1 == SetItem(fwdm, key, val)
        i1 == SetItem(invm, val, key)
        f2 == IF dedup_result.isdupval THEN DelItem(f1, dedup_result.oldkey) ELSE f1
    IN  IF dedup_result.isdupval /\ ~Has(f1, dedup_result.oldkey)
        THEN Outcome(f1, i1, "KeyError")
        ELSE Outcome(f2, i1, NoErr)

\* mutant: the stale forward entry of an overwritten value is not deleted
WriteItemKeepsOldKey(fwdm, invm, key, val, dedup_result) ==
    LET f1 == SetItem(fwdm, key, val)
        i1 == SetItem(invm, val, key)
        i2 == IF dedup_result.isdupkey THEN DelItem(i1, dedup_result.oldval) ELSE i1
    IN  IF dedup_result.isdupkey /\ ~Has(i1, dedup_result.oldval)
        THEN Outcome(f1, i1, "KeyError")
        ELSE Outcome(f1, i2, NoErr)

WriteItem(fwdm, invm, key, val, dedup_result) ==
    LET f1 == SetItem(fwdm, key, val)
        i1 == SetItem(invm, val, key)
        i2 == IF dedup_result.isdupkey THEN DelItem(i1, dedup_result.oldval) ELSE i1
        f2 == IF dedup_result.isdupval THEN DelItem(f1, dedup_result.oldkey) ELSE f1
    IN  IF dedup_result.isdupkey /\ ~Has(i1, dedup_result.oldval)
        THEN Outcome(f1, i1, "KeyError")
        ELSE IF dedup_result.isdupval /\ ~Has(f1, dedup_result.oldkey)
        THEN Outcome(f1, i2, "KeyError")
        ELSE Outcome(f2, i2, NoErr)

\* ------------------------------------------------------------------- _pop
\* mutant: the inverse entry is not deleted
PopKeepsInverse(fwdm, invm, key) ==
    IF ~Has(fwdm, key) THEN Outcome(fwdm, invm, "KeyError")
    ELSE Outcome(DelItem(fwdm, key), invm, NoErr)

Pop(fwdm, invm, key) ==
    IF ~Has(fwdm, key) THEN Outcome(fwdm, invm, "KeyError")
    ELSE LET val == fwdm[key]
             f1 == DelItem(fwdm, key)
         IN  IF ~Has(invm, val) THEN Outcome(f1, invm, "KeyError")
             ELSE Outcome(f1, DelItem(invm, val), NoErr)

\* ----------------------------------------------------------- __getitem__
\* mutant: a missing key gives the _MISS default, as dict.get would
GetItemDefault(fwdm, key) == [ret |-> Get(fwdm, key), err |-> NoErr]

\* self._fwdm[key]
GetItem(fwdm, key) ==
    IF Has(fwdm, key) THEN [ret |-> fwdm[key], err |-> NoErr]
    ELSE [ret |-> MISS, err |-> "KeyError"]

\* ------------------------------------------------------------------- _put
\* mutant: put does nothing
PutNothing(fwdm, invm, key, val, on_dup) == Outcome(fwdm, invm, NoErr)

Put(fwdm, invm, key, val, on_dup) ==
    LET dedup_result == DedupItem(fwdm, invm, key, val, on_dup)
    IN  IF dedup_result.tag = "raise" THEN Outcome(fwdm, invm, dedup_result.err)
        ELSE IF dedup_result.tag = "DedupResult"
        THEN WriteItem(fwdm, invm, key, val, dedup_result)
        ELSE Outcome(fwdm, invm, NoErr)

\* ----------------------------------------------------------------- __eq__
\* mutant: always equal
EqTrue(self, other) == TRUE

\* self == other, for another mapping whose items are those of dict `other`
Eq(self, other) ==
    IF DictLen(self) # DictLen(other) THEN FALSE
    ELSE \A k \in DOMAIN other : Get(self, k) = other[k]

\* ------------------------------------------------------------ _undo_write
\* mutant: undo does nothing
UndoWriteNothing(fwdm, invm, dedup_result, write_result) == Outcome(fwdm, invm, NoErr)

\* mutant: undo is a plain pop of the written key
UndoWriteIsPop(fwdm, invm, dedup_result, write_result) ==
    Pop(fwdm, invm, write_result.key)

UndoWrite(fwdm, invm, dedup_result, write_result) ==
    LET isdupkey == dedup_result.isdupkey
        isdupval == dedup_result.isdupval
        key == write_result.key
        val == write_result.val
        oldkey == write_result.oldkey
        oldval == write_result.oldval
    IN  IF ~isdupkey /\ ~isdupval THEN Pop(fwdm, invm, key)
        ELSE
        LET \* if isdupkey: fwdm[key] = oldval; invm[oldval] = key; if not isdupval: del invm[val]
            f1 == IF isdupkey THEN SetItem(fwdm, key, oldval) ELSE fwdm
            i1 == IF isdupkey THEN SetItem(invm, oldval, key) ELSE invm
            e1 == isdupkey /\ ~isdupval /\ ~Has(i1, val)
            i2 == IF isdupkey /\ ~isdupval THEN DelItem(i1, val) ELSE i1
            \* if isdupval: invm[val] = oldkey; fwdm[oldkey] = val; if not isdupkey: del fwdm[key]
            i3 == IF isdupval THEN SetItem(i2, val, oldkey) ELSE i2
            f3 == IF isdupval THEN SetItem(f1, oldkey, val) ELSE f1
            e3 == isdupval /\ ~isdupkey /\ ~Has(f3, key)
            f4 == IF isdupval /\ ~isdupkey THEN DelItem(f3, key) ELSE f3
        IN  IF e1 THEN Outcome(f1, i1, "KeyError")
            ELSE IF e3 THEN Outcome(f3, i3, "KeyError")
            ELSE Outcome(f4, i3, NoErr)

\* for dedup_result, write_result in reversed(writelog): undo_write(...)
RECURSIVE UndoLog(_, _, _)
UndoLog(fwdm, invm, writelog) ==
    IF writelog = <<>> THEN Outcome(fwdm, invm, NoErr)
    ELSE LET entry == writelog[Len(writelog)]
             u == UndoWrite(fwdm, invm, entry.dedup_result, entry.write_result)
         IN  IF u.err # NoErr THEN u
             ELSE UndoLog(u.fwdm, u.invm, SubSeq(writelog, 1, Len(writelog) - 1))

\* ---------------------------------------------------------------- _update
\* A batch is what _iteritems_args_kw yields: the pairs in order, and whether
\* the source then raises an error of its own instead of ending (a one-shot
\* generator that fails).
Batch(items, srcfails) == [items |-> items, srcfails |-> srcfails]
SourceEnd(fwdm, invm, srcfails) ==
    Outcome(fwdm, invm, IF srcfails THEN "SourceError" ELSE NoErr)

\* mutant: the items are put last first
RECURSIVE UpdateNoRollbackBackwards(_, _, _, _, _)
UpdateNoRollbackBackwards(fwdm, invm, on_dup, items, srcfails) ==
    IF items = <<>> THEN SourceEnd(fwdm, invm, srcfails)
    ELSE LET p == Put(fwdm, invm, items[Len(items)][1], items[Len(items)][2], on_dup)
         IN  IF p.err # NoErr THEN p
             ELSE UpdateNoRollbackBackwards(p.fwdm, p.invm, on_dup,
                                            SubSeq(items, 1, Len(items) - 1), srcfails)

\* mutant: the loop over the items returns after its first item
UpdateNoRollbackFirstOnly(fwdm, invm, on_dup, items, srcfails) ==
    IF items = <<>> THEN SourceEnd(fwdm, invm, srcfails)
    ELSE Put(fwdm, invm, Head(items)[1], Head(items)[2], on_dup)

RECURSIVE UpdateNoRollbackFrom(_, _, _, _, _)
UpdateNoRollbackFrom(fwdm, invm, on_dup, items, srcfails) ==
    IF items = <<>> THEN SourceEnd(fwdm, invm, srcfails)
    ELSE LET p == Put(fwdm, invm, Head(items)[1], Head(items)[2], on_dup)
         IN  IF p.err # NoErr THEN p
             ELSE UpdateNoRollbackFrom(p.fwdm, p.invm, on_dup, Tail(items), srcfails)

UpdateNoRollback(fwdm, invm, on_dup, batch) ==
    UpdateNoRollbackFrom(fwdm, invm, on_dup, batch.items, batch.srcfails)

\* mutant: the log is replayed on every error, also on one of the source of
\* the items
RECURSIVE UpdateWithRollbackUndoesAlways(_, _, _, _, _, _)
UpdateWithRollbackUndoesAlways(fwdm, invm, on_dup, items, srcfails, writelog) ==
    IF items = <<>>
    THEN IF srcfails
         THEN LET u == UndoLog(fwdm, invm, writelog)
              IN  Outcome(u.fwdm, u.invm, IF u.err # NoErr THEN u.err ELSE "SourceError")
         ELSE Outcome(fwdm, invm, NoErr)
    ELSE LET key == Head(items)[1]
             val == Head(items)[2]
             dedup_result == DedupItem(fwdm, invm, key, val, on_dup)
         IN  IF dedup_result.tag = "raise"
             THEN LET u == UndoLog(fwdm, invm, writelog)
                  IN  Outcome(u.fwdm, u.invm,
                              IF u.err # NoErr THEN u.err ELSE dedup_result.err)
             ELSE IF dedup_result.tag = "DedupResult"
             THEN LET w == WriteItem(fwdm, invm, key, val, dedup_result)
                      write_result == WriteResult(key, val, dedup_result.oldkey,
                                                  dedup_result.oldval)
                  IN  IF w.err # NoErr THEN w
                      ELSE UpdateWithRollbackUndoesAlways(w.fwdm, w.invm, on_dup, Tail(items),
                               srcfails,
                               Append(writelog, [dedup_result |-> dedup_result,
                                                 write_result |-> write_result]))
             ELSE UpdateWithRollbackUndoesAlways(fwdm, invm, on_dup, Tail(items), srcfails,
                                                 writelog)

\* mutant: an item that is to be written is written with the _NODUP result,
\* so that what it displaces stays
RECURSIVE UpdateWithRollbackWritesNodup(_, _, _, _, _, _)
UpdateWithRollbackWritesNodup(fwdm, invm, on_dup, items, srcfails, writelog) ==
    IF items = <<>> THEN SourceEnd(fwdm, invm, srcfails)
    ELSE LET key == Head(items)[1]
             val == Head(items)[2]
             dedup_result == DedupItem(fwdm, invm, key, val, on_dup)
         IN  IF dedup_result.tag = "raise"
             THEN IF dedup_result.err \in DuplicationErrors
                  THEN LET u == UndoLog(fwdm, invm, writelog)
                       IN  Outcome(u.fwdm, u.invm,
                                   IF u.err # NoErr THEN u.err ELSE dedup_result.err)
                  ELSE Outcome(fwdm, invm, dedup_result.err)
             ELSE IF dedup_result.tag = "DedupResult"
             THEN LET w == WriteItem(fwdm, invm, key, val, NODUP)
                      write_result == WriteResult(key, val, MISS, MISS)
                  IN  IF w.err # NoErr THEN w
                      ELSE UpdateWithRollbackWritesNodup(w.fwdm, w.invm, on_dup, Tail(items),
                               srcfails,
                               Append(writelog, [dedup_result |-> NODUP,
                                                 write_result |-> write_result]))
             ELSE UpdateWithRollbackWritesNodup(fwdm, invm, on_dup, Tail(items), srcfails,
                                                writelog)

RECURSIVE UpdateWithRollbackFrom(_, _, _, _, _, _)
UpdateWithRollbackFrom(fwdm, invm, on_dup, items, srcfails, writelog) ==
    IF items = <<>> THEN SourceEnd(fwdm, invm, srcfails)
    ELSE LET key == Head(items)[1]
             val == Head(items)[2]
             dedup_result == DedupItem(fwdm, invm, key, val, on_dup)
         IN  IF dedup_result.tag = "raise"
             THEN IF dedup_result.err \in DuplicationErrors
                  THEN LET u == UndoLog(fwdm, invm, writelog)
                       IN  Outcome(u.fwdm, u.invm,
                                   IF u.err # NoErr THEN u.err ELSE dedup_result.err)
                  ELSE Outcome(fwdm, invm, dedup_result.err)
             ELSE IF dedup_result.tag = "DedupResult"
             THEN LET w == WriteItem(fwdm, invm, key, val, dedup_result)
                      write_result == WriteResult(key, val, dedup_result.oldkey,
                                                  dedup_result.oldval)
                  IN  IF w.err # NoErr THEN w
                      ELSE UpdateWithRollbackFrom(w.fwdm, w.invm, on_dup, Tail(items), srcfails,
                               Append(writelog, [dedup_result |-> dedup_result,
                                                 write_result |-> write_result]))
             ELSE UpdateWithRollbackFrom(fwdm, invm, on_dup, Tail(items), srcfails, writelog)

UpdateWithRollback(fwdm, invm, on_dup, batch) ==
    UpdateWithRollbackFrom(fwdm, invm, on_dup, batch.items, batch.srcfails, <<>>)

\* mutant: each item is written with its key and value swapped
RECURSIVE UpdateNoDupCheckSwapped(_, _, _)
UpdateNoDupCheckSwapped(fwdm, invm, items) ==
    IF items = <<>> THEN Outcome(fwdm, invm, NoErr)
    ELSE LET w == WriteItem(fwdm, invm, Head(items)[2], Head(items)[1], NODUP)
         IN  IF w.err # NoErr THEN w
             ELSE UpdateNoDupCheckSwapped(w.fwdm, w.invm, Tail(items))

\* _update_no_dup_check: write every item of another bidict with the _NODUP
\* result; `items` is other.items(), in the order the other bidict gives them.
RECURSIVE UpdateNoDupCheck(_, _, _)
UpdateNoDupCheck(fwdm, invm, items) ==
    IF items = <<>> THEN Outcome(fwdm, invm, NoErr)
    ELSE LET w == WriteItem(fwdm, invm, Head(items)[1], Head(items)[2], NODUP)
         IN  IF w.err # NoErr THEN w
             ELSE UpdateNoDupCheck(w.fwdm, w.invm, Tail(items))

\* mutant: `init` is not looked at, so construction under a policy with a
\* RAISE slot keeps a log and rolls back
UpdateIgnoresInit(fwdm, invm, init, on_dup, batch) ==
    IF ~HasRaise(on_dup) THEN UpdateNoRollback(fwdm, invm, on_dup, batch)
    ELSE UpdateWithRollback(fwdm, invm, on_dup, batch)

\* _update for a batch of pairs (args[0] is no BidirectionalMapping, so that
\* can_skip_dup_check is false).  An empty list is still an argument, so
\* `not args and not kw` is false.
Update(fwdm, invm, init, on_dup, batch) ==
    LET can_skip_rollback == init \/ ~HasRaise(on_dup)
    IN  IF can_skip_rollback THEN UpdateNoRollback(fwdm, invm, on_dup, batch)
        ELSE UpdateWithRollback(fwdm, invm, on_dup, batch)

\* _update when args[0] is a bidict (a BidirectionalMapping) and there are no
\* keyword arguments; `items` is its items().  `not self` is len(self) == 0.
UpdateFrom(fwdm, invm, init, on_dup, items) ==
    LET can_skip_dup_check == DictLen(fwdm) = 0
    IN  IF can_skip_dup_check THEN UpdateNoDupCheck(fwdm, invm, items)
        ELSE Update(fwdm, invm, init, on_dup, Batch(items, FALSE))

\* =========================================================================
\* The heap: instances, their backing dicts, and the references the program
\* holds.
\* =========================================================================
VARIABLES
    objs,     \* alive instances: id -> [fwdm, invm, inv, invweak]
    stores,   \* alive backing dicts: id -> dict
    roots,    \* the instances the program holds a strong reference to
    last,     \* the operation that has just returned: arguments, error, result
    pre       \* objs, stores and roots as they were when it was called

vars == <<objs, stores, roots, last, pre>>

Obj(fwdm, invm, inv, invweak) ==
    [fwdm |-> fwdm, invm |-> invm, inv |-> inv, invweak |-> invweak]
Extend(f, x, v) == [y \in DOMAIN f \cup {x} |-> IF y = x THEN v ELSE f[y]]
Restrict(f, D) == [y \in D |-> f[y]]
Min(S) == CHOOSE x \in S : \A y \in S : x <= y

\* Ids are names only.  They are handed out in pairs (2p-1, 2p), an instance
\* beside its inverse and a forward dict beside its inverse dict, so that
\* heaps of the same shape get the same ids.
Partner(x) == IF x % 2 = 1 THEN x + 1 ELSE x - 1
Free(ids, f) == ids \ DOMAIN f
FreePairs(ids, f) == {x \in Free(ids, f) : x % 2 = 1 /\ x + 1 \in Free(ids, f)}
FreshInv(os, self) ==
    IF Partner(self) \in Free(ObjIds, os) THEN Partner(self) ELSE Min(Free(ObjIds, os))

Fwd(os, ss, o) == ss[os[o].fwdm]
Inv(os, ss, o) == ss[os[o].invm]

\* _isinv: the instance holds no strong reference to its inverse
IsInv(os, self) == os[self].inv = None

\* mutant: the inverse holds self strongly too
InitInvBothStrong(os, self, inv) ==
    LET withinv == Extend(os, inv, Obj(os[self].invm, os[self].fwdm, self, None))
    IN  [withinv EXCEPT ![self].inv = inv, ![self].invweak = None]

\* mutant: the inverse gets self's dicts uncrossed
InitInvNotCrossed(os, self, inv) ==
    LET withinv == Extend(os, inv, Obj(os[self].fwdm, os[self].invm, None, self))
    IN  [withinv EXCEPT ![self].inv = inv, ![self].invweak = None]

\* _init_inv: make the inverse instance `inv` over self's dicts, crossed;
\* self holds it strongly, it holds self weakly.
InitInv(os, self, inv) ==
    LET withinv == Extend(os, inv, Obj(os[self].invm, os[self].fwdm, None, self))
    IN  [withinv EXCEPT ![self].inv = inv, ![self].invweak = None]

\* mutant: what the weak reference gives is returned as it is, also when the
\* referent is gone
InverseNoRederive(os, self) ==
    IF os[self].inv # None
    THEN [objs |-> os, ret |-> os[self].inv, err |-> NoErr, allocated |-> FALSE]
    ELSE IF os[self].invweak = None
    THEN [objs |-> os, ret |-> None, err |-> "TypeError", allocated |-> FALSE]
    ELSE [objs |-> os,
          ret |-> IF os[self].invweak \in DOMAIN os THEN os[self].invweak ELSE None,
          err |-> NoErr, allocated |-> FALSE]

\* mutant: the weak reference is never tried; without a strong reference a
\* new inverse is made
InverseIgnoresWeak(os, self) ==
    IF os[self].inv # None
    THEN [objs |-> os, ret |-> os[self].inv, err |-> NoErr, allocated |-> FALSE]
    ELSE LET inv == FreshInv(os, self)
         IN  [objs |-> InitInv(os, self, inv), ret |-> inv, err |-> NoErr,
              allocated |-> TRUE]

\* the inverse property: [objs, ret, err, allocated]
Inverse(os, self) ==
    IF os[self].inv # None
    THEN [objs |-> os, ret |-> os[self].inv, err |-> NoErr, allocated |-> FALSE]
    ELSE IF os[self].invweak = None
    THEN [objs |-> os, ret |-> None, err |-> "TypeError", allocated |-> FALSE]
    ELSE IF os[self].invweak \in DOMAIN os
    THEN [objs |-> os, ret |-> os[self].invweak, err |-> NoErr, allocated |-> FALSE]
    ELSE LET inv == FreshInv(os, self)
         IN  [objs |-> InitInv(os, self, inv), ret |-> inv, err |-> NoErr,
              allocated |-> TRUE]

\* mutant: _invweak is not taken out of the exported state
GetStateKeepsWeak(os, self) ==
    [slot \in {"_fwdm", "_invm", "_inv", "_invweak"} |->
        CASE slot = "_fwdm" -> os[self].fwdm
          [] slot = "_invm" -> os[self].invm
          [] slot = "_inv" -> os[self].inv
          [] slot = "_invweak" -> os[self].invweak]

\* __getstate__: the slots the instance has, by name, without _invweak and
\* __weakref__.  _hash is never set on this class; what __weakref__ holds
\* is not modelled.
GetState(os, self) ==
    LET state == [slot \in {"_fwdm", "_invm", "_inv", "_invweak", "__weakref__"} |->
                    CASE slot = "_fwdm" -> os[self].fwdm
                      [] slot = "_invm" -> os[self].invm
                      [] slot = "_inv" -> os[self].inv
                      [] slot = "_invweak" -> os[self].invweak
                      [] slot = "__weakref__" -> None]
    IN  Restrict(state, DOMAIN state \ {"_invweak", "__weakref__"})

\* mutant: the slots are set and the inverse is not made
SetStateNoInitInv(os, self, state) ==
    [os EXCEPT ![self] =
        Obj(IF "_fwdm" \in DOMAIN state THEN state["_fwdm"] ELSE os[self].fwdm,
            IF "_invm" \in DOMAIN state THEN state["_invm"] ELSE os[self].invm,
            IF "_inv" \in DOMAIN state THEN state["_inv"] ELSE os[self].inv,
            IF "_invweak" \in DOMAIN state THEN state["_invweak"] ELSE os[self].invweak)]

\* __setstate__ on the instance `self` that __new__ made: every slot of the
\* payload is set, then _init_inv makes the inverse
SetState(os, self, state) ==
    LET set == [os EXCEPT ![self] =
                  Obj(IF "_fwdm" \in DOMAIN state THEN state["_fwdm"] ELSE os[self].fwdm,
                      IF "_invm" \in DOMAIN state THEN state["_invm"] ELSE os[self].invm,
                      IF "_inv" \in DOMAIN state THEN state["_inv"] ELSE os[self].inv,
                      IF "_invweak" \in DOMAIN state THEN state["_invweak"]
                      ELSE os[self].invweak)]
    IN  InitInv(set, self, FreshInv(set, self))

\* mutant: the copy is given self's own dicts, not copies of them
CopyObjsShared(os, self, cp, f, i) ==
    LET withcp == Extend(os, cp, Obj(os[self].fwdm, os[self].invm, None, None))
    IN  InitInv(withcp, cp, FreshInv(withcp, cp))

\* copy: a new instance `cp` over copies `f`, `i` of self's two dicts, with
\* its own inverse.
\* mutant: the copy's forward dict is a copy of self's inverse dict, and the
\* other way round
CopyStoresInverted(os, ss, self, f, i) ==
    Extend(Extend(ss, f, ss[os[self].invm]), i, ss[os[self].fwdm])

CopyStores(os, ss, self, f, i) ==
    Extend(Extend(ss, f, ss[os[self].fwdm]), i, ss[os[self].invm])
CopyObjs(os, self, cp, f, i) ==
    LET withcp == Extend(os, cp, Obj(f, i, None, None))
    IN  InitInv(withcp, cp, FreshInv(withcp, cp))

NoOnDup == OnDup("-", "-", "-")
NoBatch == Batch(<<>>, FALSE)
Last(op, obj, key, val, on_dup, batch, err, ret) ==
    [op |-> op, obj |-> obj, key |-> key, val |-> val, on_dup |-> on_dup,
     batch |-> batch, err |-> err, ret |-> ret, other |-> EmptyDict, truth |-> FALSE]
Idle == Last("idle", None, MISS, MISS, NoOnDup, NoBatch, NoErr, None)
NoSnapshot == [objs |-> <<>>, stores |-> <<>>, roots |-> {}]
Snapshot == [objs |-> objs, stores |-> stores, roots |-> roots]

BatchesOver(atoms, srcfail) ==
    {Batch(items, srcfails) :
        items \in UNION {[1..n -> atoms \X atoms] : n \in 0..MaxBatch},
        srcfails \in srcfail}

\* the items() of the bidicts over `atoms` with at most MaxBatch items, in
\* every order: no key twice and no value twice
ItemsOfBidicts(atoms) ==
    {b.items : b \in {c \in BatchesOver(atoms, {FALSE}) :
        \A x, y \in 1..Len(c.items) :
            x # y => c.items[x][1] # c.items[y][1] /\ c.items[x][2] # c.items[y][2]}}

\* the dicts with keys and values among `atoms`
DictsOver(atoms) == UNION {[D -> atoms] : D \in SUBSET atoms}

\* the program has started and has built nothing yet
Init ==
    /\ objs = <<>>
    /\ stores = <<>>
    /\ roots = {}
    /\ last = Idle
    /\ pre = NoSnapshot

\* the dicts of `self` become those of `out`
Store(self, out) ==
    stores' = [stores EXCEPT ![objs[self].fwdm] = out.fwdm, ![objs[self].invm] = out.invm]

\* __init__(items): two fresh dicts, _init_inv, then _update(True, on_dup, items).
\* When it raises, the program gets no reference to the instance.
New(batch) ==
    /\ FreePairs(ObjIds, objs) # {}
    /\ FreePairs(StoreIds, stores) # {}
    /\ LET self == Min(FreePairs(ObjIds, objs))
           f == Min(FreePairs(StoreIds, stores))
           i == Partner(f)
           withself == Extend(objs, self, Obj(f, i, None, None))
           out == Update(EmptyDict, EmptyDict, TRUE, ON_DUP_DEFAULT, batch)
       IN  /\ objs' = InitInv(withself, self, FreshInv(withself, self))
           /\ stores' = Extend(Extend(stores, f, out.fwdm), i, out.invm)
           /\ roots' = IF out.err = NoErr THEN roots \cup {self} ELSE roots
           /\ last' = Last("new", self, MISS, MISS, ON_DUP_DEFAULT, batch, out.err, self)
    /\ pre' = Snapshot

\* put(key, val, on_dup)
PutOp(self, key, val, on_dup) ==
    /\ LET out == Put(Fwd(objs, stores, self), Inv(objs, stores, self), key, val, on_dup)
       IN  /\ Store(self, out)
           /\ last' = Last("put", self, key, val, on_dup, NoBatch, out.err, None)
    /\ pre' = Snapshot
    /\ UNCHANGED <<objs, roots>>

\* putall(items, on_dup), and update(items) with on_dup the class default
UpdateOp(self, on_dup, batch) ==
    /\ LET out == Update(Fwd(objs, stores, self), Inv(objs, stores, self), FALSE, on_dup, batch)
       IN  /\ Store(self, out)
           /\ last' = Last("update", self, MISS, MISS, on_dup, batch, out.err, None)
    /\ pre' = Snapshot
    /\ UNCHANGED <<objs, roots>>

\* putall(other, on_dup) and update(other), for another bidict `other` whose
\* items() are `items`
UpdateFromOp(self, on_dup, items) ==
    /\ LET out == UpdateFrom(Fwd(objs, stores, self), Inv(objs, stores, self), FALSE,
                             on_dup, items)
       IN  /\ Store(self, out)
           /\ last' = Last("update_bidict", self, MISS, MISS, on_dup, Batch(items, FALSE),
                           out.err, None)
    /\ pre' = Snapshot
    /\ UNCHANGED <<objs, roots>>

\* self == other, for another Mapping whose items are those of the dict
\* `other`; the answer is kept in last.truth
EqOp(self, other) ==
    /\ last' = [Last("eq", self, MISS, MISS, NoOnDup, NoBatch, NoErr, None)
                    EXCEPT !.other = other,
                           !.truth = Eq(Fwd(objs, stores, self), other)]
    /\ pre' = Snapshot
    /\ UNCHANGED <<objs, stores, roots>>

\* self[key]
GetOp(self, key) ==
    /\ LET got == GetItem(Fwd(objs, stores, self), key)
       IN  last' = Last("get", self, key, MISS, NoOnDup, NoBatch, got.err, got.ret)
    /\ pre' = Snapshot
    /\ UNCHANGED <<objs, stores, roots>>

\* pop(key) / del self[key]
RemoveOp(self, key) ==
    /\ LET out == Pop(Fwd(objs, stores, self), Inv(objs, stores, self), key)
       IN  /\ Store(self, out)
           /\ last' = Last("remove", self, key, MISS, NoOnDup, NoBatch, out.err,
                           Get(Fwd(objs, stores, self), key))
    /\ pre' = Snapshot
    /\ UNCHANGED <<objs, roots>>

\* test_put_correct(mb, (key, val)): copy = mb.copy(); mb.put(key, val,
\* ON_DUP_DROP_OLD); then copy and mb are compared
TestPutCorrect(mb, key, val) ==
    /\ FreePairs(ObjIds, objs) # {}
    /\ FreePairs(StoreIds, stores) # {}
    /\ LET cp == Min(FreePairs(ObjIds, objs))
           f == Min(FreePairs(StoreIds, stores))
           i == Partner(f)
           copied == CopyStores(objs, stores, mb, f, i)
           out == Put(Fwd(objs, stores, mb), Inv(objs, stores, mb), key, val,
                      ON_DUP_DROP_OLD)
       IN  /\ objs' = CopyObjs(objs, mb, cp, f, i)
           /\ stores' = [copied EXCEPT ![objs[mb].fwdm] = out.fwdm,
                                       ![objs[mb].invm] = out.invm]
           /\ roots' = roots \cup {cp}
           /\ last' = Last("test_put_correct", mb, key, val, ON_DUP_DROP_OLD, NoBatch,
                           out.err, cp)
    /\ pre' = Snapshot

\* c = self.copy()
CopyOp(self) ==
    /\ FreePairs(ObjIds, objs) # {}
    /\ FreePairs(StoreIds, stores) # {}
    /\ LET cp == Min(FreePairs(ObjIds, objs))
           f == Min(FreePairs(StoreIds, stores))
           i == Partner(f)
       IN  /\ objs' = CopyObjs(objs, self, cp, f, i)
           /\ stores' = CopyStores(objs, stores, self, f, i)
           /\ roots' = roots \cup {cp}
           /\ last' = Last("copy", self, MISS, MISS, NoOnDup, NoBatch, NoErr, cp)
    /\ pre' = Snapshot

\* c = the instance rebuilt from the exported state of self (a pickle round
\* trip): the payload holds the two dicts by value, so the rebuilt instance
\* gets dicts of its own with the same items; an inverse in the payload's
\* _inv slot is rebuilt too, and nothing but that slot refers to it.
ImportOp(self) ==
    /\ FreePairs(ObjIds, objs) # {}
    /\ FreePairs(StoreIds, stores) # {}
    /\ LET state == GetState(objs, self)
           c == Min(FreePairs(ObjIds, objs))
           f == Min(FreePairs(StoreIds, stores))
           i == Partner(f)
           payload == [slot \in DOMAIN state |->
                         CASE slot = "_fwdm" -> f
                           [] slot = "_invm" -> i
                           [] slot = "_inv" -> IF state[slot] = None THEN None ELSE Temp
                           [] OTHER -> state[slot]]
           made == Extend(objs, c, Obj(None, None, None, None))
       IN  /\ objs' = SetState(made, c, payload)
           /\ stores' = Extend(Extend(stores, f, stores[state["_fwdm"]]),
                               i, stores[state["_invm"]])
           /\ roots' = roots \cup {c}
           /\ last' = Last("import", self, MISS, MISS, NoOnDup, NoBatch, NoErr, c)
    /\ pre' = Snapshot

\* r = self.inverse
InverseOp(self) ==
    /\ (objs[self].inv = None /\ objs[self].invweak \notin DOMAIN objs)
          => Free(ObjIds, objs) # {}
    /\ LET r == Inverse(objs, self)
       IN  /\ objs' = r.objs
           /\ roots' = IF r.err = NoErr THEN roots \cup {r.ret} ELSE roots
           /\ last' = Last("inverse", self, MISS, MISS, NoOnDup, NoBatch, r.err, r.ret)
    /\ pre' = Snapshot
    /\ UNCHANGED stores

\* the program forgets its reference to an instance
Drop(self) ==
    /\ roots' = roots \ {self}
    /\ UNCHANGED <<objs, stores, last, pre>>

\* An instance nothing refers to strongly is reclaimed, at once or later:
\* weak references to it die, and so do the dicts no remaining instance uses.
StronglyHeld(os, rs) == rs \cup {os[x].inv : x \in DOMAIN os}
Reclaim(self) ==
    /\ self \notin StronglyHeld(objs, roots)
    /\ LET left == DOMAIN objs \ {self}
           os == [x \in left |->
                    IF objs[x].invweak = self THEN [objs[x] EXCEPT !.invweak = Dead]
                    ELSE objs[x]]
           used == {os[x].fwdm : x \in left} \cup {os[x].invm : x \in left}
       IN  /\ objs' = os
           /\ stores' = Restrict(stores, used)
    /\ UNCHANGED <<roots, last, pre>>

\* the caller has looked at what the operation returned and goes on
Forget ==
    /\ last # Idle
    /\ last' = Idle
    /\ pre' = NoSnapshot
    /\ UNCHANGED <<objs, stores, roots>>

\* An operation is called once the caller is done with the last one's result.
Ready == last = Idle

\* Several instances: pairs over 1..HeapAtoms, the policies _dup.py names.
HeapKeys == 1..HeapAtoms
NamedOnDups == {ON_DUP_DEFAULT, ON_DUP_RAISE, ON_DUP_DROP_OLD}

Next ==
    \/ Ready /\ \E batch \in BatchesOver(HeapKeys, {FALSE}) : New(batch)
    \/ Ready /\ \E self \in roots, key \in HeapKeys, val \in HeapKeys, on_dup \in NamedOnDups :
                    PutOp(self, key, val, on_dup)
    \/ Ready /\ \E self \in roots, on_dup \in NamedOnDups,
                    batch \in BatchesOver(HeapKeys, {FALSE}) :
                    UpdateOp(self, on_dup, batch)
    \/ Ready /\ \E self \in roots, key \in HeapKeys : RemoveOp(self, key)
    \/ Ready /\ \E self \in roots : CopyOp(self)
    \/ Ready /\ \E self \in roots, key \in HeapKeys, val \in HeapKeys :
                    TestPutCorrect(self, key, val)
    \/ Ready /\ \E self \in roots : InverseOp(self)
    \/ Ready /\ \E self \in roots : ImportOp(self)
    \/ Ready /\ \E self \in roots : Drop(self)
    \/ Ready /\ \E self \in DOMAIN objs : Reclaim(self)
    \/ Forget

Spec == Init /\ [][Next]_vars

\* One instance on its own, m = bidict(): every policy, pairs over 1..NumAtoms,
\* and batches whose source may fail.
InitOne ==
    /\ objs = InitInv(Extend(<<>>, 1, Obj(1, 2, None, None)), 1, 2)
    /\ stores = Extend(Extend(<<>>, 1, EmptyDict), 2, EmptyDict)
    /\ roots = {1}
    /\ last = Idle
    /\ pre = NoSnapshot

NextOne ==
    \/ Ready /\ \E self \in roots, key \in Atoms, val \in Atoms, on_dup \in OnDups :
                    PutOp(self, key, val, on_dup)
    \/ Ready /\ \E self \in roots, on_dup \in OnDups,
                    batch \in BatchesOver(Atoms, BOOLEAN) :
                    UpdateOp(self, on_dup, batch)
    \/ Ready /\ \E self \in roots, on_dup \in OnDups, items \in ItemsOfBidicts(Atoms) :
                    UpdateFromOp(self, on_dup, items)
    \/ Ready /\ \E self \in roots, key \in Atoms : RemoveOp(self, key)
    \/ Ready /\ \E self \in roots, other \in DictsOver(Atoms) : EqOp(self, other)
    \/ Ready /\ \E self \in roots, key \in Atoms : GetOp(self, key)
    \/ Forget

SpecOne == InitOne /\ [][NextOne]_vars

\* Construction on its own: the program builds one map at a time from up to
\* MaxBuild pairs over 1..NumAtoms, looks at what it got and lets it go.
BuildsOver(atoms) ==
    {Batch(items, FALSE) : items \in UNION {[1..n -> atoms \X atoms] : n \in 0..MaxBuild}}

NextNew ==
    \/ Ready /\ objs = <<>> /\ \E batch \in BuildsOver(Atoms) : New(batch)
    \/ Ready /\ \E self \in roots : Drop(self)
    \/ Ready /\ \E self \in DOMAIN objs : Reclaim(self)
    \/ Forget

SpecNew == Init /\ [][NextNew]_vars

\* =========================================================================
\* Properties
\* =========================================================================
\* the two dicts of the instance the last operation was called on, before
\* the call and after it
PreFwd == pre.stores[pre.objs[last.obj].fwdm]
PreInv == pre.stores[pre.objs[last.obj].invm]
PostFwd == stores[objs[last.obj].fwdm]
PostInv == stores[objs[last.obj].invm]
Mutations == {"put", "update", "remove"}
KeyOnly(f, i, key, val) == Has(f, key) /\ ~Has(i, val)
ValOnly(f, i, key, val) == ~Has(f, key) /\ Has(i, val)
BothOnTwo(f, i, key, val) == Has(f, key) /\ Has(i, val) /\ f[key] # val

\* C1: in every reachable state, also the one a failed operation leaves
\* behind, the two dicts of every instance have the same size and are each
\* other's inverse.
C1_Bijection ==
    \A o \in DOMAIN objs : MutuallyInverse(Fwd(objs, stores, o), Inv(objs, stores, o))

\* an update failed with a duplication error after its first item had been
\* written and undone, on a map that is not empty
C1_Witness ==
    /\ last.op = "update"
    /\ last.err \in DuplicationErrors
    /\ Len(last.batch.items) = 2
    /\ DedupItem(PreFwd, PreInv, last.batch.items[1][1], last.batch.items[1][2],
                 last.on_dup).tag = "DedupResult"
    /\ PostFwd # EmptyDict

C3_ErrorKinds ==
    last.op = "put" =>
        /\ (KeyOnly(PreFwd, PreInv, last.key, last.val) /\ last.on_dup.key = RAISE)
              => last.err = "KeyDuplicationError"
        /\ (ValOnly(PreFwd, PreInv, last.key, last.val) /\ last.on_dup.val = RAISE)
              => last.err = "ValueDuplicationError"
        /\ BothOnTwo(PreFwd, PreInv, last.key, last.val)
              => /\ last.on_dup.kv = RAISE => last.err = "KeyAndValueDuplicationError"
                 /\ last.on_dup.kv # RAISE => last.err = NoErr

\* both sides collide, on_dup.kv is RAISE and the other two slots are not
C3_Witness ==
    /\ last.op = "put"
    /\ BothOnTwo(PreFwd, PreInv, last.key, last.val)
    /\ last.on_dup = OnDup(DROP_NEW, DROP_OLD, RAISE)
    /\ last.err = "KeyAndValueDuplicationError"

\* C4: put of a pair the map already holds never fails, decides NOOP (no
\* write) and leaves both dicts unchanged, under every policy.
C4_AlreadyPresentNoop ==
    (last.op = "put" /\ Get(PreFwd, last.key) = last.val)
        => /\ last.err = NoErr
           /\ DedupItem(PreFwd, PreInv, last.key, last.val, last.on_dup) = NOOP
           /\ PostFwd = PreFwd /\ PostInv = PreInv

C4_Witness ==
    /\ last.op = "put"
    /\ Get(PreFwd, last.key) = last.val
    /\ last.on_dup = ON_DUP_RAISE
    /\ DictLen(PreFwd) = 2

\* C5: put under DROP_OLD in all three slots never fails, and the map becomes
\* the old map without the pairs that have that key or that value, plus the
\* pair put; the inverse dict holds the same pairs reversed.
Displaced(f, key, val) == {p \in Items(f) : p[1] # key /\ p[2] # val} \cup {<<key, val>>}
C5_OverwriteDisplaces ==
    (last.op = "put" /\ last.on_dup = ON_DUP_DROP_OLD)
        => /\ last.err = NoErr
           /\ Items(PostFwd) = Displaced(PreFwd, last.key, last.val)
           /\ Items(PostInv) = {<<p[2], p[1]>> : p \in Items(PostFwd)}

\* {1: 1, 2: 2} and put(1, 2) give exactly {1: 2}
C5_Witness ==
    /\ last.op = "put"
    /\ last.on_dup = ON_DUP_DROP_OLD
    /\ Items(PreFwd) = {<<1, 1>>, <<2, 2>>}
    /\ last.key = 1 /\ last.val = 2
    /\ Items(PostFwd) = {<<1, 2>>}

\* C7: when a put collides and the slot of that kind of collision is
\* DROP_NEW, the put does not fail and leaves both dicts unchanged, whatever
\* the other two slots are.
C7_KeepExistingNoop ==
    (/\ last.op = "put"
     /\ \/ KeyOnly(PreFwd, PreInv, last.key, last.val) /\ last.on_dup.key = DROP_NEW
        \/ ValOnly(PreFwd, PreInv, last.key, last.val) /\ last.on_dup.val = DROP_NEW
        \/ BothOnTwo(PreFwd, PreInv, last.key, last.val) /\ last.on_dup.kv = DROP_NEW)
        => (last.err = NoErr /\ PostFwd = PreFwd /\ PostInv = PreInv)

\* a value-only collision kept, with the other two slots RAISE
C7_Witness ==
    /\ last.op = "put"
    /\ ValOnly(PreFwd, PreInv, last.key, last.val)
    /\ last.on_dup = OnDup(RAISE, DROP_NEW, RAISE)
    /\ last.err = NoErr

\* C6: test_put_correct: after copy = mb.copy() and mb.put(key, val,
\* ON_DUP_DROP_OLD), copy == mb exactly when (key, val) was an item of mb
\* before the put (which is when it is an item of the copy).
C6_PutChangesUnlessPresent ==
    last.op = "test_put_correct" =>
        /\ last.err = NoErr
        /\ Eq(Fwd(objs, stores, last.ret), PostFwd)
              <=> <<last.key, last.val>> \in Items(PreFwd)
        /\ <<last.key, last.val>> \in Items(Fwd(objs, stores, last.ret))
              <=> <<last.key, last.val>> \in Items(PreFwd)

\* a put that displaced an entry, so that the copy and mb have the same
\* length and still differ
C6_Witness ==
    /\ last.op = "test_put_correct"
    /\ PreFwd # EmptyDict
    /\ DictLen(PostFwd) = DictLen(PreFwd)
    /\ ~Eq(Fwd(objs, stores, last.ret), PostFwd)

\* C8: the instance that o.inverse gives has o's inverse dict as its forward
\* dict and o's forward dict as its inverse dict (the same dicts, not equal
\* ones), so that it maps v to k exactly when o maps k to v, whichever of the
\* two the map was changed through.
CanInverse(os, o) ==
    os[o].inv # None \/ os[o].invweak \in DOMAIN os \/ Free(ObjIds, os) # {}
C8_InverseSharesStorage ==
    \A o \in DOMAIN objs : CanInverse(objs, o) =>
        LET r == Inverse(objs, o)
        IN  /\ r.err = NoErr
            /\ r.ret \in DOMAIN r.objs
            /\ r.objs[r.ret].fwdm = objs[o].invm
            /\ r.objs[r.ret].invm = objs[o].fwdm
            /\ \A k \in Atoms, v \in Atoms :
                  (Get(stores[r.objs[r.ret].fwdm], v) = k) <=> (Get(Fwd(objs, stores, o), k) = v)

\* a put through the weakly held side of a pair whose other side the program
\* also holds has changed the dicts
C8_Witness ==
    /\ last.op = "put"
    /\ last.err = NoErr
    /\ objs[last.obj].inv = None
    /\ objs[last.obj].invweak \in roots
    /\ PostFwd # PreFwd
    /\ DictLen(PostFwd) = 2

\* C9: for every alive instance o, o.inverse.inverse is o; a second access
\* of o.inverse gives the same instance again and makes nothing; and
\* o.inverse makes a new instance only when no alive instance is paired with
\* o (has o's dicts, crossed).
PairedWith(os, o) ==
    {p \in DOMAIN os : os[p].fwdm = os[o].invm /\ os[p].invm = os[o].fwdm}
C9_InverseOfInverse ==
    \A o \in DOMAIN objs : CanInverse(objs, o) =>
        LET r1 == Inverse(objs, o)
        IN  /\ r1.err = NoErr
            /\ r1.ret \in DOMAIN r1.objs
            /\ r1.allocated => PairedWith(objs, o) = {}
            /\ LET again == Inverse(r1.objs, o)
               IN  again.ret = r1.ret /\ ~again.allocated
            /\ LET r2 == Inverse(r1.objs, r1.ret)
               IN  r2.err = NoErr /\ r2.ret = o /\ ~r2.allocated

\* an inverse was made anew for an instance whose first inverse had been
\* reclaimed
C9_Witness ==
    /\ last.op = "inverse"
    /\ last.ret \notin DOMAIN pre.objs
    /\ pre.objs[last.obj].invweak = Dead
    /\ PostFwd # EmptyDict

\* C10: copy() gives the copy two dicts that no instance had before; a put,
\* update or remove changes no dict but the two of the instance it is called
\* on (which are those of its inverse); and an instance keeps its two dicts
\* for life.  So nothing done to the copy or its inverse changes the dicts
\* of the original, and the other way round.
StoresOf(os, o) == {os[o].fwdm, os[o].invm}
C10_CopyIndependent ==
    /\ last.op = "copy" =>
          /\ StoresOf(objs, last.ret) \cap DOMAIN pre.stores = {}
          /\ \A x \in DOMAIN pre.objs : StoresOf(objs, x) \cap StoresOf(objs, last.ret) = {}
          /\ \A s \in DOMAIN pre.stores : stores[s] = pre.stores[s]
    /\ last.op \in Mutations =>
          \A y \in DOMAIN objs :
              StoresOf(objs, y) \cap StoresOf(objs, last.obj) = {}
                  => /\ Fwd(objs, stores, y) = pre.stores[pre.objs[y].fwdm]
                     /\ Inv(objs, stores, y) = pre.stores[pre.objs[y].invm]
    /\ last # Idle =>
          \A x \in DOMAIN pre.objs \cap DOMAIN objs :
              objs[x].fwdm = pre.objs[x].fwdm /\ objs[x].invm = pre.objs[x].invm

\* the copy's inverse view has been changed by a put while another instance,
\* on other dicts, kept pairs that the copy no longer has
C10_Witness ==
    /\ last.op = "put"
    /\ last.err = NoErr
    /\ PostFwd # PreFwd
    /\ \E y \in DOMAIN objs :
          /\ StoresOf(objs, y) \cap StoresOf(objs, last.obj) = {}
          /\ Fwd(objs, stores, y) \in {PreFwd, PreInv}
          /\ DictLen(Fwd(objs, stores, y)) = 2

\* C11: right after c = self.copy(), c == self; c's forward dict holds the
\* pairs of self's forward dict and c's inverse dict those of self's inverse
\* dict (not the other way round); self's dicts are what they were; and c's
\* inverse is an instance over c's own two dicts, crossed.
C11_CopyPreserves ==
    last.op = "copy" =>
        LET c == last.ret
        IN  /\ Eq(Fwd(objs, stores, c), PostFwd)
            /\ Fwd(objs, stores, c) = PreFwd /\ Inv(objs, stores, c) = PreInv
            /\ PostFwd = PreFwd /\ PostInv = PreInv
            /\ objs[c].inv \in DOMAIN objs
            /\ objs[objs[c].inv].fwdm = objs[c].invm
            /\ objs[objs[c].inv].invm = objs[c].fwdm

\* the copied map is not its own inverse: {1: 2}
C11_Witness ==
    /\ last.op = "copy"
    /\ Items(PreFwd) = {<<1, 2>>}
    /\ Items(Inv(objs, stores, last.ret)) = {<<2, 1>>}

\* C12: filling an empty map from another bidict (the no-dup-check path)
\* never fails and leaves the forward and inverse dicts that putting the
\* other bidict's items one by one, with the dedup check, gives under every
\* policy: the other's pairs, and the same pairs reversed.
C12_FastPathEquivalence ==
    (last.op = "update_bidict" /\ PreFwd = EmptyDict) =>
        /\ last.err = NoErr
        /\ \A on_dup \in OnDups :
              LET full == Update(EmptyDict, EmptyDict, FALSE, on_dup, last.batch)
              IN  full.err = NoErr /\ PostFwd = full.fwdm /\ PostInv = full.invm
        /\ Items(PostFwd) = {last.batch.items[n] : n \in 1..Len(last.batch.items)}
        /\ Items(PostInv) = {<<p[2], p[1]>> : p \in Items(PostFwd)}

\* an empty map was filled from a bidict of two pairs that is not its own
\* inverse
C12_Witness ==
    /\ last.op = "update_bidict"
    /\ PreFwd = EmptyDict
    /\ last.batch.items = <<(<<1, 2>>), (<<2, 3>>)>>
    /\ DictLen(PostFwd) = 2

\* the sequences of the same length that hold the same set of pairs
Range(seq) == {seq[n] : n \in 1..Len(seq)}
Orders(items) == {o \in [1..Len(items) -> Range(items)] : Range(o) = Range(items)}
Built(items) == Update(EmptyDict, EmptyDict, TRUE, ON_DUP_DEFAULT, Batch(items, FALSE))
NoKeyTwice(items) == \A p, q \in Range(items) : p[1] = q[1] => p = q

\* C13 as claimed: when a map has been built from a sequence of pairs with
\* no duplication error, building from the same set of pairs in any other
\* order that raises no duplication error gives an equal map.
C13_OrderInsensitiveAsClaimed ==
    (last.op = "new" /\ last.err = NoErr) =>
        \A o \in Orders(last.batch.items) :
            Built(o).err = NoErr => Eq(PostFwd, Built(o).fwdm)

\* C13, amended: when a map has been built with no duplication error from
\* pairs among which no key occurs with two values, building from the same
\* set of pairs in any other order does not fail and gives an equal map
\* (equal in both directions of ==).
C13_OrderInsensitive ==
    (last.op = "new" /\ last.err = NoErr /\ NoKeyTwice(last.batch.items)) =>
        \A o \in Orders(last.batch.items) :
            /\ Built(o).err = NoErr
            /\ Eq(PostFwd, Built(o).fwdm)
            /\ Eq(Built(o).fwdm, PostFwd)

\* a map built from three pairs, which have six orders
C13_Witness ==
    /\ last.op = "new"
    /\ last.err = NoErr
    /\ last.batch.items = <<(<<1, 2>>), (<<2, 3>>), (<<3, 1>>)>>
    /\ DictLen(PostFwd) = 3

\* C14: m == other is true exactly when m and other have as many pairs and
\* every pair of other is a pair of m; that is exactly when the two hold the
\* same set of pairs; other == m gives the same answer; and the comparison
\* changes nothing.
C14_EqualityDefinition ==
    last.op = "eq" =>
        /\ last.truth = (/\ Cardinality(Items(PostFwd)) = Cardinality(Items(last.other))
                         /\ Items(last.other) \subseteq Items(PostFwd))
        /\ last.truth = (Items(PostFwd) = Items(last.other))
        /\ last.truth = Eq(last.other, PostFwd)
        /\ PostFwd = PreFwd /\ PostInv = PreInv

\* two maps with the same keys, and so the same length, that are not equal
C14_Witness ==
    /\ last.op = "eq"
    /\ ~last.truth
    /\ DOMAIN last.other = DOMAIN PostFwd
    /\ DictLen(PostFwd) = 2

\* the forward dict after the first n pairs of `items` when none of them
\* failed under the default policy: for each key the value it was given last
MaxOf(S) == CHOOSE x \in S : \A y \in S : y <= x
PrefixMap(items, n) ==
    [k \in {items[j][1] : j \in 1..n} |->
        items[MaxOf({j \in 1..n : items[j][1] = k})][2]]
\* the value of pair p is the value of another key of f
ValueTaken(f, p) == \E k \in DOMAIN f : f[k] = p[2] /\ k # p[1]
Failing(items) ==
    {n \in 1..Len(items) : ValueTaken(PrefixMap(items, n - 1), items[n])}

\* C15: when building a map from a sequence of pairs fails with a
\* duplication error, it fails at the first pair whose value another key
\* already has, with the error of that collision; the dicts of the instance
\* being built hold the pairs before it as applied in order (nothing is
\* rolled back), they are mutually inverse, the failing pair and the pairs
\* after it are not applied, and the program gets no reference to the
\* instance.
C15_ConstructionNoRollback ==
    (last.op = "new" /\ last.err # NoErr) =>
        /\ last.err \in DuplicationErrors
        /\ Failing(last.batch.items) # {}
        /\ LET n == Min(Failing(last.batch.items))
               f == PrefixMap(last.batch.items, n - 1)
           IN  /\ PostFwd = f
               /\ Items(PostInv) = {<<p[2], p[1]>> : p \in Items(f)}
               /\ MutuallyInverse(PostFwd, PostInv)
               /\ last.err = IF Has(f, last.batch.items[n][1])
                              THEN "KeyAndValueDuplicationError"
                              ELSE "ValueDuplicationError"
               /\ last.obj \in DOMAIN objs
               /\ last.obj \notin roots

\* the second of three pairs failed: the first stays, the third (which
\* collides with nothing) is not applied
C15_Witness ==
    /\ last.op = "new"
    /\ last.err = "ValueDuplicationError"
    /\ last.batch.items = <<(<<1, 1>>), (<<2, 1>>), (<<3, 3>>)>>
    /\ Items(PostFwd) = {<<1, 1>>}

\* C16: removing a key that is present does not fail and returns the key's
\* value v; the forward dict loses exactly (key, v) and the inverse dict
\* exactly (v, key); afterwards key is not in the map and v is not in its
\* inverse view.
C16_RemovePresent ==
    (last.op = "remove" /\ Has(PreFwd, last.key)) =>
        /\ last.err = NoErr
        /\ last.ret = PreFwd[last.key]
        /\ Items(PostFwd) = Items(PreFwd) \ {<<last.key, last.ret>>}
        /\ Items(PostInv) = Items(PreInv) \ {<<last.ret, last.key>>}
        /\ ~Has(PostFwd, last.key)
        /\ PairedWith(objs, last.obj) # {}
        /\ \A p \in PairedWith(objs, last.obj) : ~Has(Fwd(objs, stores, p), last.ret)

\* one of two pairs was removed, a pair whose value is another pair's key
C16_Witness ==
    /\ last.op = "remove"
    /\ Items(PreFwd) = {<<1, 2>>, <<2, 3>>}
    /\ last.key = 1
    /\ Items(PostFwd) = {<<2, 3>>}

\* C17: looking up or removing a key that is absent fails with KeyError
\* (KeyNotFound) and leaves the forward and inverse dicts as they were; a
\* lookup of a present key gives its value, also with no change.
C17_AbsentKeyFails ==
    /\ (last.op \in {"get", "remove"} /\ ~Has(PreFwd, last.key))
          => (last.err = "KeyError" /\ PostFwd = PreFwd /\ PostInv = PreInv)
    /\ (last.op = "get" /\ Has(PreFwd, last.key))
          => (last.err = NoErr /\ last.ret = PreFwd[last.key]
              /\ PostFwd = PreFwd /\ PostInv = PreInv)

\* a lookup of a key that is absent as a key and present as a value
C17_Witness ==
    /\ last.op = "get"
    /\ last.err = "KeyError"
    /\ ~Has(PreFwd, last.key)
    /\ Has(PreInv, last.key)
    /\ DictLen(PostFwd) = 2

\* C18: update with one pair whose key is not a key of the map and whose
\* value is not a value of it, under the default policy, does not fail;
\* afterwards the map gives the value for the key and its inverse dict the
\* key for the value, the map has one pair more, and every pair it had is
\* still there in both dicts.
C18_PlainInsert ==
    (/\ last.op = "update"
     /\ last.on_dup = ON_DUP_DEFAULT
     /\ Len(last.batch.items) = 1
     /\ ~last.batch.srcfails
     /\ ~Has(PreFwd, last.batch.items[1][1])
     /\ ~Has(PreInv, last.batch.items[1][2]))
        => LET key == last.batch.items[1][1]
               val == last.batch.items[1][2]
           IN  /\ last.err = NoErr
               /\ GetItem(PostFwd, key) = [ret |-> val, err |-> NoErr]
               /\ Get(PostInv, val) = key
               /\ DictLen(PostFwd) = DictLen(PreFwd) + 1
               /\ DictLen(PostInv) = DictLen(PreInv) + 1
               /\ Items(PreFwd) \subseteq Items(PostFwd)
               /\ Items(PreInv) \subseteq Items(PostInv)

\* a third pair was added to a map of two
C18_Witness ==
    /\ last.op = "update"
    /\ last.on_dup = ON_DUP_DEFAULT
    /\ Items(PreFwd) = {<<1, 2>>, <<2, 1>>}
    /\ last.batch = Batch(<<(<<3, 3>>)>>, FALSE)
    /\ DictLen(PostFwd) = 3

\* C19: the exported state of an instance never has the _invweak slot; the
\* instance rebuilt from the exported state of m is a new instance whose
\* forward and inverse dicts hold the pairs of m's, which has an inverse of
\* its own over its two dicts, crossed, and whose inverse.inverse is itself.
C19_StateRoundTrip ==
    /\ \A o \in DOMAIN objs : "_invweak" \notin DOMAIN GetState(objs, o)
    /\ last.op = "import" =>
          LET c == last.ret
          IN  /\ "_invweak" \notin DOMAIN GetState(pre.objs, last.obj)
              /\ c \notin DOMAIN pre.objs
              /\ Fwd(objs, stores, c) = PreFwd /\ Inv(objs, stores, c) = PreInv
              /\ objs[c].inv \in DOMAIN objs
              /\ objs[objs[c].inv].fwdm = objs[c].invm
              /\ objs[objs[c].inv].invm = objs[c].fwdm
              /\ LET r1 == Inverse(objs, c)
                     r2 == Inverse(r1.objs, r1.ret)
                 IN  /\ r1.err = NoErr /\ ~r1.allocated
                     /\ r2.err = NoErr /\ ~r2.allocated
                     /\ r2.ret = c

\* the state of an instance that holds its inverse only weakly was exported
\* and imported, with a map that is not its own inverse
C19_Witness ==
    /\ last.op = "import"
    /\ pre.objs[last.obj].inv = None
    /\ pre.objs[last.obj].invweak \in DOMAIN pre.objs
    /\ Items(PreFwd) = {<<1, 2>>}
    /\ Items(Fwd(objs, stores, last.ret)) = {<<1, 2>>}

\* C20: whenever a put went on to write (a plain insert, or an overwrite on
\* the key side, the value side or both), undoing that write with its
\* dedup result and write record gives back exactly the forward and inverse
\* dicts from before the put, without failing; the write did change the
\* dicts, so the undo is no no-op, and when an entry was displaced a plain
\* pop of the key does not give them back.
C20_WriteUndoRoundTrip ==
    LET dedup_result == DedupItem(PreFwd, PreInv, last.key, last.val, last.on_dup)
        write_result == WriteResult(last.key, last.val, dedup_result.oldkey,
                                    dedup_result.oldval)
    IN  (last.op = "put" /\ dedup_result.tag = "DedupResult") =>
            LET u == UndoWrite(PostFwd, PostInv, dedup_result, write_result)
                popped == Pop(PostFwd, PostInv, last.key)
            IN  /\ last.err = NoErr
                /\ u.err = NoErr
                /\ u.fwdm = PreFwd /\ u.invm = PreInv
                /\ PostFwd # PreFwd /\ PostInv # PreInv
                /\ (dedup_result.isdupkey \/ dedup_result.isdupval)
                      => (popped.fwdm # PreFwd /\ popped.invm # PreInv)

\* a put that overwrote on both sides: of three pairs, two were displaced
C20_Witness ==
    /\ last.op = "put"
    /\ last.err = NoErr
    /\ BothOnTwo(PreFwd, PreInv, last.key, last.val)
    /\ DictLen(PreFwd) = 3
    /\ DictLen(PostFwd) = 2

\* what one put is to do to the set of pairs S under a policy with no RAISE
\* slot: nothing when the pair is there or when the slot of its collision
\* is DROP_NEW; otherwise the pairs with that key or that value go and the
\* pair comes
Collision(S, key, val) ==
    LET k == \E p \in S : p[1] = key
        v == \E p \in S : p[2] = val
    IN  IF <<key, val>> \in S THEN "have"
        ELSE IF k /\ v THEN "kv" ELSE IF k THEN "key" ELSE IF v THEN "val" ELSE "none"
AfterPut(S, key, val, on_dup) ==
    LET c == Collision(S, key, val)
        slot == CASE c = "kv" -> on_dup.kv [] c = "key" -> on_dup.key
                  [] c = "val" -> on_dup.val [] OTHER -> DROP_OLD
    IN  IF c = "have" \/ slot = DROP_NEW THEN S
        ELSE {p \in S : p[1] # key /\ p[2] # val} \cup {<<key, val>>}
RECURSIVE AfterPuts(_, _, _)
AfterPuts(S, items, on_dup) ==
    IF items = <<>> THEN S
    ELSE AfterPuts(AfterPut(S, Head(items)[1], Head(items)[2], on_dup), Tail(items), on_dup)

\* C21: an update under a policy with no RAISE slot never fails with a
\* duplication error (it fails only when the source of the items does, and
\* then after all the items it gave); the forward dict ends with the pairs
\* that putting the items one after another in input order gives, and the
\* inverse dict with the same pairs reversed.
C21_NoRollbackBatch ==
    (last.op = "update" /\ ~HasRaise(last.on_dup)) =>
        /\ last.err = (IF last.batch.srcfails THEN "SourceError" ELSE NoErr)
        /\ Items(PostFwd) = AfterPuts(Items(PreFwd), last.batch.items, last.on_dup)
        /\ Items(PostInv) = {<<p[2], p[1]>> : p \in Items(PostFwd)}

\* a batch whose order matters: the second item overwrites what the first
\* one wrote, and the first displaced an old pair
C21_Witness ==
    /\ last.op = "update"
    /\ last.on_dup = OnDup(DROP_OLD, DROP_NEW, DROP_OLD)
    /\ Items(PreFwd) = {<<1, 1>>, <<2, 2>>}
    /\ last.batch = Batch(<<(<<1, 3>>), (<<1, 2>>)>>, FALSE)
    /\ Items(PostFwd) = {<<1, 2>>}

\* C22: when the instance that held the strong reference of a pair has been
\* reclaimed, inverse on the survivor does not fail and gives an instance,
\* a new one, whose forward dict is the survivor's inverse dict and whose
\* inverse dict is the survivor's forward dict; no dict is made or changed;
\* the survivor now holds the new instance strongly and the new instance
\* holds the survivor weakly.
C22_RederiveAfterReclaim ==
    (/\ last.op = "inverse"
     /\ pre.objs[last.obj].inv = None
     /\ pre.objs[last.obj].invweak = Dead)
        => /\ last.err = NoErr
           /\ last.ret # None
           /\ last.ret \in DOMAIN objs
           /\ last.ret \notin DOMAIN pre.objs
           /\ objs[last.ret].fwdm = pre.objs[last.obj].invm
           /\ objs[last.ret].invm = pre.objs[last.obj].fwdm
           /\ objs[last.obj].fwdm = pre.objs[last.obj].fwdm
           /\ objs[last.obj].invm = pre.objs[last.obj].invm
           /\ stores = pre.stores
           /\ objs[last.obj].inv = last.ret /\ objs[last.obj].invweak = None
           /\ objs[last.ret].inv = None /\ objs[last.ret].invweak = last.obj

\* the survivor of a reclaimed pair, with two pairs in its dicts, now holds
\* its new inverse strongly
C22_Witness ==
    /\ last.op = "inverse"
    /\ pre.objs[last.obj].invweak = Dead
    /\ objs[last.obj].inv = last.ret
    /\ DictLen(Fwd(objs, stores, last.ret)) = 2

\* C23: in every state every instance has exactly one of _inv and _invweak
\* set.  An instance with _inv set holds an alive instance that is _isinv
\* and refers back to it weakly; an instance that is _isinv refers weakly
\* to an instance that is gone or to one that holds it strongly.  So no two
\* instances hold each other strongly, and of a pair exactly one is _isinv.
C23_NoRetainCycle ==
    /\ \A o \in DOMAIN objs :
          /\ (objs[o].inv # None) # (objs[o].invweak # None)
          /\ IsInv(objs, o) = (objs[o].invweak # None)
          /\ ~IsInv(objs, o) =>
                /\ objs[o].inv \in DOMAIN objs
                /\ IsInv(objs, objs[o].inv)
                /\ objs[objs[o].inv].invweak = o
          /\ IsInv(objs, o) =>
                \/ objs[o].invweak = Dead
                \/ /\ objs[o].invweak \in DOMAIN objs
                   /\ objs[objs[o].invweak].inv = o
    /\ \A o, p \in DOMAIN objs : ~(objs[o].inv = p /\ objs[p].inv = o)
    /\ \A o \in DOMAIN objs : \A p \in PairedWith(objs, o) :
          IsInv(objs, o) # IsInv(objs, p)

\* two pairs are alive, one of them made anew by an access of inverse after
\* its first strong holder was reclaimed
C23_Witness ==
    /\ last.op = "inverse"
    /\ last.ret \notin DOMAIN pre.objs
    /\ Cardinality(DOMAIN objs) = 4
    /\ \E o \in DOMAIN objs : o \notin {last.obj, last.ret} /\ ~IsInv(objs, o)

\* C24: for the map, the policy and the batch of every update, the
\* with-rollback path and the no-rollback path raise the same error or
\* none, and when that is no duplication error they leave the same forward
\* and inverse dicts, which are those the update left.
C24_BatchPathsAgree ==
    last.op = "update" =>
        LET logged == UpdateWithRollback(PreFwd, PreInv, last.on_dup, last.batch)
            plain == UpdateNoRollback(PreFwd, PreInv, last.on_dup, last.batch)
        IN  /\ logged.err = plain.err
            /\ logged.err \notin DuplicationErrors =>
                  /\ logged.fwdm = plain.fwdm /\ logged.invm = plain.invm
                  /\ PostFwd = plain.fwdm /\ PostInv = plain.invm
                  /\ last.err = plain.err

\* a batch of two under the default policy that went through with its
\* first item overwriting the value of a key
C24_Witness ==
    /\ last.op = "update"
    /\ last.on_dup = ON_DUP_DEFAULT
    /\ last.err = NoErr
    /\ Len(last.batch.items) = 2
    /\ KeyOnly(PreFwd, PreInv, last.batch.items[1][1], last.batch.items[1][2])
    /\ DictLen(PostFwd) = 3

\* the error of the same collision seen from the other side
Mirrored(err) ==
    CASE err = "KeyDuplicationError" -> "ValueDuplicationError"
      [] err = "ValueDuplicationError" -> "KeyDuplicationError"
      [] OTHER -> err

\* C25: a put of (key, val) through an instance under the policy (A, B, C)
\* leaves the dicts of every instance m paired with it as put(val, key) on
\* m under (B, A, C) leaves them, and fails exactly when that put fails,
\* with KeyDuplicationError and ValueDuplicationError exchanged.
C25_InverseViewSymmetry ==
    last.op = "put" =>
        \A m \in PairedWith(pre.objs, last.obj) :
            LET direct == Put(Fwd(pre.objs, pre.stores, m), Inv(pre.objs, pre.stores, m),
                              last.val, last.key,
                              OnDup(last.on_dup.val, last.on_dup.key, last.on_dup.kv))
            IN  /\ Fwd(objs, stores, m) = direct.fwdm
                /\ Inv(objs, stores, m) = direct.invm
                /\ last.err = Mirrored(direct.err)

\* a put through one side that fails on its value, which is the other
\* side's key, under a policy whose three slots differ
C25_Witness ==
    /\ last.op = "put"
    /\ last.on_dup = OnDup(DROP_OLD, RAISE, DROP_NEW)
    /\ last.err = "ValueDuplicationError"
    /\ \E m \in PairedWith(pre.objs, last.obj) :
          Has(Fwd(pre.objs, pre.stores, m), last.val) /\ DictLen(Fwd(objs, stores, m)) = 2

\* some item of the batch, put after the ones before it, meets a collision
\* whose slot of the policy is RAISE
RECURSIVE RaisesAmong(_, _, _)
RaisesAmong(S, items, on_dup) ==
    IF items = <<>> THEN FALSE
    ELSE LET key == Head(items)[1]
             val == Head(items)[2]
             c == Collision(S, key, val)
             slot == CASE c = "kv" -> on_dup.kv [] c = "key" -> on_dup.key
                       [] c = "val" -> on_dup.val [] OTHER -> DROP_OLD
         IN  \/ slot = RAISE
             \/ RaisesAmong(AfterPut(S, key, val, on_dup), Tail(items), on_dup)

\* C26: in an update of an existing map under a policy with a RAISE slot,
\* when the source of the items fails after the items it gave and none of
\* them met a RAISE collision, the update fails with the error of the source
\* and nothing is undone: the forward dict holds the pairs that putting the
\* given items in order leaves, the inverse dict the same pairs reversed, and
\* the two are mutually inverse.  When one of the items met a RAISE
\* collision, the update fails with a duplication error and both dicts are
\* as before the call.
C26_RollbackOnlyOnDuplication ==
    (last.op = "update" /\ HasRaise(last.on_dup) /\ last.batch.srcfails) =>
        IF RaisesAmong(Items(PreFwd), last.batch.items, last.on_dup)
        THEN /\ last.err \in DuplicationErrors
             /\ PostFwd = PreFwd /\ PostInv = PreInv
        ELSE /\ last.err = "SourceError"
             /\ Items(PostFwd) = AfterPuts(Items(PreFwd), last.batch.items, last.on_dup)
             /\ Items(PostInv) = {<<p[2], p[1]>> : p \in Items(PostFwd)}
             /\ MutuallyInverse(PostFwd, PostInv)

\* under the default policy the source failed after two items, the first of
\* which had overwritten the value of a key: the dicts are not those from
\* before the call
C26_Witness ==
    /\ last.op = "update"
    /\ last.on_dup = ON_DUP_DEFAULT
    /\ last.batch.srcfails
    /\ last.err = "SourceError"
    /\ Len(last.batch.items) = 2
    /\ KeyOnly(PreFwd, PreInv, last.batch.items[1][1], last.batch.items[1][2])
    /\ DictLen(PostFwd) = 3
    /\ PostFwd # PreFwd

====
